---------------------------- MODULE Spec2Model ----------------------------
(***************************************************************************)
(* A model of backend/claude_history.py: the log-entry parser and its      *)
(* round trip, the session loader, the conversation-thread reconstruction  *)
(* and the interaction builder.                                            *)
(*                                                                         *)
(* Python values are tagged tuples: <<"str", chars>>, <<"num", n>>,        *)
(* <<"bool", b>>, <<"null">> (None), <<"list", items>>, <<"obj", dict>>    *)
(* and <<"datetime", body, tz>>.  A string is a sequence of characters of  *)
(* an abstract alphabet; the literals of the program are short strings     *)
(* over that alphabet.  A dict is a function from its keys to values, so   *)
(* equality of dicts ignores the order of the keys, as Python's does.      *)
(* Instances of the dataclasses are records with a field cls.              *)
(***************************************************************************)
EXTENDS Integers, Sequences, FiniteSets, TLC

(* ---------------------------- bounds ----------------------------------- *)
MaxEntries == 4
MaxRerunLen == 3
MaxLines == 3
MaxSessionLen == 3
MaxThread == 6
MaxBlocks == 3
MaxText == 2
MaxName == 4
MaxTreeLen == 4

(* ------------------------- Python values ------------------------------- *)
Str(chars) == <<"str", chars>>
Num(n) == <<"num", n>>
Bool(b) == <<"bool", b>>
None == <<"null">>
List(items) == <<"list", items>>
Dict(f) == <<"obj", f>>
EmptyDict == Dict(<<>>)

IsStr(v) == v[1] = "str"
IsList(v) == v[1] = "list"
IsDict(v) == v[1] = "obj"

\* bool(v): the truth value Python gives a value
Truthy(v) ==
    CASE v[1] = "str" -> v[2] # <<>>
      [] v[1] = "num" -> v[2] # 0
      [] v[1] = "bool" -> v[2]
      [] v[1] = "null" -> FALSE
      [] v[1] = "list" -> v[2] # <<>>
      [] v[1] = "obj" -> DOMAIN v[2] # {}
      [] OTHER -> TRUE

\* a result of a call: a value, or an exception that propagates
Ok(v) == <<"ok", v>>
Raise(exc) == <<"raise", exc>>
IsOk(r) == r[1] = "ok"
Val(r) == r[2]

\* d.get(key, default) on a dict; on any other value the attribute is missing
HasGet(v) == IsDict(v)
Get(d, key, default) == IF key \in DOMAIN d[2] THEN d[2][key] ELSE default

\* a record with one more field
With(rec, name, value) ==
    [k \in DOMAIN rec \cup {name} |-> IF k = name THEN value ELSE rec[k]]

(* ---------------------------- strings ---------------------------------- *)
Whitespace == {" ", "\n"}

Min(S) == CHOOSE m \in S : \A k \in S : m <= k
Max(S) == CHOOSE m \in S : \A k \in S : m >= k

\* s.startswith(p), p in s, s.strip() on character sequences
StartsWith(s, p) == Len(p) <= Len(s) /\ SubSeq(s, 1, Len(p)) = p
Contains(s, p) == \E k \in 0..(Len(s) - Len(p)) : SubSeq(s, k + 1, k + Len(p)) = p
Strip(s) ==
    LET keep == {k \in 1..Len(s) : s[k] \notin Whitespace}
    IN  IF keep = {} THEN <<>> ELSE SubSeq(s, Min(keep), Max(keep))

\* sep.join(parts) on a list of character sequences
RECURSIVE Join(_, _)
Join(sep, parts) ==
    IF parts = <<>> THEN <<>>
    ELSE IF Len(parts) = 1 THEN parts[1]
    ELSE parts[1] \o sep \o Join(sep, Tail(parts))

\* s.replace(old, new) for a one-character old
RECURSIVE Replace(_, _, _)
Replace(s, old, new) ==
    IF s = <<>> THEN <<>>
    ELSE (IF Head(s) = old THEN new ELSE <<Head(s)>>) \o Replace(Tail(s), old, new)

\* the elements of a set in some fixed order
RECURSIVE SetToSeq(_)
SetToSeq(S) ==
    IF S = {} THEN <<>>
    ELSE LET x == CHOOSE y \in S : TRUE IN <<x>> \o SetToSeq(S \ {x})

\* str(v) and json.dumps(v): a rendering of a value as text, one character
\* for each scalar and each bracket
RECURSIVE Render(_)
Render(v) ==
    CASE v[1] = "str" -> <<"'">> \o v[2] \o <<"'">>
      [] v[1] = "num" -> <<"#">>
      [] v[1] = "bool" -> <<"?">>
      [] v[1] = "null" -> <<"~">>
      [] v[1] = "list" ->
            <<"[">> \o Join(<<",">>, [k \in 1..Len(v[2]) |-> Render(v[2][k])]) \o <<"]">>
      [] v[1] = "obj" ->
            LET keys == SetToSeq(DOMAIN v[2])
            IN  <<"{">> \o Join(<<",">>, [k \in 1..Len(keys) |->
                        <<"'">> \o <<keys[k]>> \o <<"'", ":">> \o Render(v[2][keys[k]])])
                \o <<"}">>
      [] OTHER -> <<"@">>

str(v) == IF IsStr(v) THEN v ELSE Str(Render(v))
json_dumps(v) == Str(Render(v))

(* ------------------------- content blocks ------------------------------ *)
TextContent(text) == [cls |-> "TextContent", text |-> text]

TextContent_from_dict(d) == TextContent(Get(d, "text", Str(<<>>)))

ThinkingContent_from_dict(d) ==
    [cls |-> "ThinkingContent",
     thinking |-> Get(d, "thinking", Str(<<>>)),
     signature |-> Get(d, "signature", None)]

ToolUseContent_from_dict(d) ==
    [cls |-> "ToolUseContent",
     id |-> Get(d, "id", Str(<<>>)),
     name |-> Get(d, "name", Str(<<>>)),
     input |-> Get(d, "input", EmptyDict)]

ToolResultContent_from_dict(d) ==
    [cls |-> "ToolResultContent",
     tool_use_id |-> Get(d, "tool_use_id", Str(<<>>)),
     content |-> Get(d, "content", Str(<<>>)),
     is_error |-> Get(d, "is_error", Bool(FALSE))]

parse_content_block(d) ==
    LET block_type == Get(d, "type", Str(<<>>))
    IN  IF block_type = Str(<<"text">>) THEN TextContent_from_dict(d)
        ELSE IF block_type = Str(<<"thinking">>) THEN ThinkingContent_from_dict(d)
        ELSE IF block_type = Str(<<"tool_use">>) THEN ToolUseContent_from_dict(d)
        ELSE IF block_type = Str(<<"tool_result">>) THEN ToolResultContent_from_dict(d)
        ELSE TextContent(str(d))

parse_content(content) ==
    IF IsStr(content) THEN <<TextContent(content)>>
    ELSE IF IsList(content)
         THEN [k \in 1..Len(content[2]) |->
                  IF IsDict(content[2][k]) THEN parse_content_block(content[2][k])
                  ELSE TextContent(str(content[2][k]))]
    ELSE <<TextContent(str(content))>>

TextContent_to_dict(b) == Dict([type |-> Str(<<"text">>), text |-> b.text])

ThinkingContent_to_dict(b) ==
    LET d == [type |-> Str(<<"thinking">>), thinking |-> b.thinking]
    IN  Dict(IF b.signature # None THEN With(d, "signature", b.signature) ELSE d)

ToolUseContent_to_dict(b) ==
    Dict([type |-> Str(<<"tool_use">>), id |-> b.id, name |-> b.name, input |-> b.input])

ToolResultContent_to_dict(b) ==
    LET d == [type |-> Str(<<"tool_result">>), tool_use_id |-> b.tool_use_id,
              content |-> b.content]
    IN  Dict(IF Truthy(b.is_error) THEN With(d, "is_error", b.is_error) ELSE d)

\* block.to_dict()
Block_to_dict(b) ==
    CASE b.cls = "TextContent" -> TextContent_to_dict(b)
      [] b.cls = "ThinkingContent" -> ThinkingContent_to_dict(b)
      [] b.cls = "ToolUseContent" -> ToolUseContent_to_dict(b)
      [] b.cls = "ToolResultContent" -> ToolResultContent_to_dict(b)

\* "".join(b.text for b in blocks if isinstance(b, TextContent))
JoinTexts(bs) ==
    LET texts == SelectSeq(bs, LAMBDA b : b.cls = "TextContent")
    IN  Str(Join(<<>>, [k \in 1..Len(texts) |-> texts[k].text[2]]))

\* mutant: the shape is inferred from the blocks, not from the original
serialize_content_ByBlockCount(bs, original) ==
    IF Len(bs) = 1 /\ bs[1].cls = "TextContent" THEN bs[1].text
    ELSE List([k \in 1..Len(bs) |-> Block_to_dict(bs[k])])

serialize_content(bs, original) ==
    IF original # None /\ IsStr(original)
    THEN IF Len(bs) = 1 /\ bs[1].cls = "TextContent" THEN bs[1].text
         ELSE JoinTexts(bs)
    ELSE List([k \in 1..Len(bs) |-> Block_to_dict(bs[k])])

(* ----------------------------- messages -------------------------------- *)
Usage_default ==
    [cls |-> "Usage", input_tokens |-> Num(0), output_tokens |-> Num(0),
     cache_creation_input_tokens |-> Num(0), cache_read_input_tokens |-> Num(0),
     service_tier |-> Str(<<>>), _raw |-> None]

Usage_from_dict(d) ==
    IF d = None THEN Ok(Usage_default)
    ELSE IF ~HasGet(d) THEN Raise("AttributeError")
    ELSE Ok([cls |-> "Usage",
             input_tokens |-> Get(d, "input_tokens", Num(0)),
             output_tokens |-> Get(d, "output_tokens", Num(0)),
             cache_creation_input_tokens |-> Get(d, "cache_creation_input_tokens", Num(0)),
             cache_read_input_tokens |-> Get(d, "cache_read_input_tokens", Num(0)),
             service_tier |-> Get(d, "service_tier", Str(<<>>)),
             _raw |-> d])

UserMessage_from_dict(d) ==
    IF ~HasGet(d) THEN Raise("AttributeError")
    ELSE Ok([cls |-> "UserMessage",
             role |-> Get(d, "role", Str(<<"user">>)),
             content |-> parse_content(Get(d, "content", Str(<<>>))),
             _raw |-> d])

AssistantMessage_from_dict(d) ==
    IF ~HasGet(d) THEN Raise("AttributeError")
    ELSE LET usage == Usage_from_dict(Get(d, "usage", None))
         IN  IF ~IsOk(usage) THEN usage
             ELSE Ok([cls |-> "AssistantMessage",
                      role |-> Get(d, "role", Str(<<"assistant">>)),
                      content |-> parse_content(Get(d, "content", List(<<>>))),
                      model |-> Get(d, "model", Str(<<>>)),
                      message_id |-> Get(d, "id", Str(<<>>)),
                      stop_reason |-> Get(d, "stop_reason", None),
                      stop_sequence |-> Get(d, "stop_sequence", None),
                      usage |-> Val(usage),
                      _raw |-> d])

(* ---------------------------- timestamps ------------------------------- *)
\* The date-time texts datetime.fromisoformat accepts are one character of
\* DateBodies, alone or followed by the offset "+00:00".
DateBodies == {"2025-01-01T10:00:01", "2025-01-01T10:00:02", "2025-01-01T10:00:03"}
UtcOffset == "+00:00"

\* datetime.now(), read off the wall clock
Clock == {"now-1", "now-2"}
DateTime(body, tz) == <<"datetime", body, tz>>
Now(clock) == DateTime(clock, "naive")

fromisoformat(s) ==
    IF Len(s) = 1 /\ s[1] \in DateBodies THEN Ok(DateTime(s[1], "naive"))
    ELSE IF Len(s) = 2 /\ s[1] \in DateBodies /\ s[2] = UtcOffset
         THEN Ok(DateTime(s[1], "utc"))
    ELSE Raise("ValueError")

_parse_timestamp(ts, clock) ==
    IF ~Truthy(ts) THEN Ok(Now(clock))
    ELSE IF ~IsStr(ts) THEN Raise("AttributeError")
    ELSE LET parsed == fromisoformat(Replace(ts[2], "Z", <<UtcOffset>>))
         IN  IF IsOk(parsed) THEN parsed ELSE Ok(Now(clock))

(* ------------------------------ entries -------------------------------- *)
\* the fields of the base class Entry
Entry(cls, uuid, timestamp, entry_type, raw) ==
    [cls |-> cls, uuid |-> uuid, timestamp |-> timestamp,
     entry_type |-> entry_type, raw |-> raw]

parent_uuid(e) == Get(e.raw, "parentUuid", None)

to_dict(e) == e.raw

UserEntry_from_dict(d, clock) ==
    LET ts == _parse_timestamp(Get(d, "timestamp", Str(<<>>)), clock)
        msg == UserMessage_from_dict(Get(d, "message", EmptyDict))
    IN  IF ~IsOk(ts) THEN ts
        ELSE IF ~IsOk(msg) THEN msg
        ELSE Ok(With(With(
                 Entry("UserEntry", Get(d, "uuid", Str(<<>>)), Val(ts), Str(<<"user">>), d),
                 "message", Val(msg)),
                 "user_type", Get(d, "userType", Str(<<"external">>))))

AssistantEntry_from_dict(d, clock) ==
    LET ts == _parse_timestamp(Get(d, "timestamp", Str(<<>>)), clock)
        msg == AssistantMessage_from_dict(Get(d, "message", EmptyDict))
    IN  IF ~IsOk(ts) THEN ts
        ELSE IF ~IsOk(msg) THEN msg
        ELSE Ok(With(With(
                 Entry("AssistantEntry", Get(d, "uuid", Str(<<>>)), Val(ts),
                       Str(<<"assistant">>), d),
                 "message", Val(msg)),
                 "request_id", Get(d, "requestId", Str(<<>>))))

SystemEntry_from_dict(d, clock) ==
    LET ts == _parse_timestamp(Get(d, "timestamp", Str(<<>>)), clock)
    IN  IF ~IsOk(ts) THEN ts
        ELSE Ok(With(With(With(With(
                 Entry("SystemEntry", Get(d, "uuid", Str(<<>>)), Val(ts), Str(<<"system">>), d),
                 "subtype", Get(d, "subtype", Str(<<>>))),
                 "content", Get(d, "content", Str(<<>>))),
                 "level", Get(d, "level", Str(<<"info">>))),
                 "is_meta", Get(d, "isMeta", Bool(FALSE))))

FileHistorySnapshotEntry_from_dict(d, clock) ==
    LET snapshot == Get(d, "snapshot", EmptyDict)
    IN  IF ~HasGet(snapshot) THEN Raise("AttributeError")
        ELSE LET ts == _parse_timestamp(Get(snapshot, "timestamp", Str(<<>>)), clock)
             IN  IF ~IsOk(ts) THEN ts
                 ELSE Ok(With(With(With(
                          Entry("FileHistorySnapshotEntry",
                                Get(d, "messageId", Get(d, "uuid", Str(<<>>))), Val(ts),
                                Str(<<"file-history-snapshot">>), d),
                          "message_id", Get(d, "messageId", Str(<<>>))),
                          "snapshot", snapshot),
                          "is_snapshot_update", Get(d, "isSnapshotUpdate", Bool(FALSE))))

SummaryEntry_from_dict(d, clock) ==
    Ok(With(With(
        Entry("SummaryEntry", Get(d, "leafUuid", Str(<<>>)), Now(clock), Str(<<"summary">>), d),
        "summary", Get(d, "summary", Str(<<>>))),
        "leaf_uuid", Get(d, "leafUuid", Str(<<>>))))

QueueOperationEntry_from_dict(d, clock) ==
    LET ts == _parse_timestamp(Get(d, "timestamp", Str(<<>>)), clock)
    IN  IF ~IsOk(ts) THEN ts
        ELSE Ok(With(With(
                 Entry("QueueOperationEntry", Str(<<>>), Val(ts), Str(<<"queue-operation">>), d),
                 "operation", Get(d, "operation", Str(<<>>))),
                 "content", Get(d, "content", Str(<<>>))))

UnknownEntry(d, entry_type, clock) ==
    LET ts == _parse_timestamp(Get(d, "timestamp", Str(<<>>)), clock)
    IN  IF ~IsOk(ts) THEN ts
        ELSE Ok(Entry("UnknownEntry", Get(d, "uuid", Str(<<>>)), Val(ts), entry_type, d))

\* parse_entry(d); d.get fails with AttributeError when d is no dict
parse_entry(d, clock) ==
    IF ~HasGet(d) THEN Raise("AttributeError")
    ELSE LET entry_type == Get(d, "type", Str(<<>>))
         IN  IF entry_type = Str(<<"user">>) THEN UserEntry_from_dict(d, clock)
             ELSE IF entry_type = Str(<<"assistant">>) THEN AssistantEntry_from_dict(d, clock)
             ELSE IF entry_type = Str(<<"system">>) THEN SystemEntry_from_dict(d, clock)
             ELSE IF entry_type = Str(<<"file-history-snapshot">>)
                  THEN FileHistorySnapshotEntry_from_dict(d, clock)
             ELSE IF entry_type = Str(<<"summary">>) THEN SummaryEntry_from_dict(d, clock)
             ELSE IF entry_type = Str(<<"queue-operation">>)
                  THEN QueueOperationEntry_from_dict(d, clock)
             ELSE UnknownEntry(d, entry_type, clock)

(* ------------------------ interaction types ---------------------------- *)
Action(action_type, timestamp) ==
    [action_type |-> action_type, timestamp |-> timestamp, thinking |-> None,
     tool_name |-> None, tool_id |-> None, tool_input |-> None, tool_result |-> None,
     is_error |-> Bool(FALSE), text |-> None, summary |-> None]

Interaction(id, timestamp, user_prompt) ==
    [id |-> id, timestamp |-> timestamp, user_prompt |-> user_prompt, actions |-> <<>>,
     final_response |-> None, model |-> None, cancel_reason |-> None]

(* -------------------- interaction building functions ------------------- *)
CAVEAT_PREFIX ==
    <<"Caveat: The messages below were generated by the user while running local commands">>
COMMAND_NAME == <<"<command-name>">>
COMMAND_MESSAGE == <<"<command-message>">>
LOCAL_COMMAND_STDOUT == <<"<local-command-stdout>">>
LOCAL_COMMAND_STDERR == <<"<local-command-stderr>">>

\* mutant: the caveat prefix is not looked for
_is_local_command_message_NoCaveat(text) ==
    IF Contains(text[2], COMMAND_NAME) \/ Contains(text[2], COMMAND_MESSAGE) THEN TRUE
    ELSE IF Contains(text[2], LOCAL_COMMAND_STDOUT) \/ Contains(text[2], LOCAL_COMMAND_STDERR)
         THEN TRUE
    ELSE FALSE

_is_local_command_message(text) ==
    IF StartsWith(text[2], CAVEAT_PREFIX) THEN TRUE
    ELSE IF Contains(text[2], COMMAND_NAME) \/ Contains(text[2], COMMAND_MESSAGE) THEN TRUE
    ELSE IF Contains(text[2], LOCAL_COMMAND_STDOUT) \/ Contains(text[2], LOCAL_COMMAND_STDERR)
         THEN TRUE
    ELSE FALSE

AUTO_COMPACT_PREFIX ==
    <<"This session is being continued from a previous conversation",
      " that ran out of context.">>

CANCELLATION_MESSAGES ==
    {<<"[Request interrupted by user", " for tool use", "]">>,
     <<"[Request interrupted by user", "]">>}

\* mutant: the text is not trimmed
_is_auto_compact_message_NoStrip(text) == StartsWith(text[2], AUTO_COMPACT_PREFIX)

_is_auto_compact_message(text) == StartsWith(Strip(text[2]), AUTO_COMPACT_PREFIX)

_is_cancellation_message(text) == Strip(text[2]) \in CANCELLATION_MESSAGES

\* the texts of the TextContent blocks of a message, in order
TextsOf(content) ==
    LET idx == {k \in 1..Len(content) : content[k].cls = "TextContent"}
        RECURSIVE Collect(_)
        Collect(k) ==
            IF k > Len(content) THEN <<>>
            ELSE (IF k \in idx THEN <<content[k].text[2]>> ELSE <<>>) \o Collect(k + 1)
    IN  Collect(1)

_is_human_message(entry) ==
    IF entry.cls # "UserEntry" THEN FALSE
    ELSE IF \E k \in 1..Len(entry.message.content) :
                entry.message.content[k].cls = "ToolResultContent"
         THEN FALSE
    ELSE LET text == Str(Join(<<>>, TextsOf(entry.message.content)))
         IN  IF _is_local_command_message(text) THEN FALSE
             ELSE IF _is_auto_compact_message(text) THEN FALSE
             ELSE IF _is_cancellation_message(text) THEN FALSE
             ELSE TRUE

_get_text_content(entry) == Str(Join(<<"\n">>, TextsOf(entry.message.content)))

THINKING_FALLBACK_1 == <<"{", "'", "type", "'", ":", "'", "thinking", "'">>
THINKING_FALLBACK_2 == <<"{", "\"", "type", "\"", ":", "\"", "thinking", "\"">>

\* (actions, final_text, has_tool_use) of an assistant entry
_extract_actions_from_assistant(entry) ==
    LET content == entry.message.content
        timestamp == entry.timestamp
        RECURSIVE Actions(_)
        Actions(k) ==
            IF k > Len(content) THEN <<>>
            ELSE LET block == content[k]
                 IN  (IF block.cls = "ThinkingContent"
                      THEN <<[Action("thinking", timestamp) EXCEPT
                                !.thinking = block.thinking]>>
                      ELSE IF block.cls = "ToolUseContent"
                      THEN <<[Action("tool_use", timestamp) EXCEPT
                                !.tool_name = block.name, !.tool_id = block.id,
                                !.tool_input = block.input]>>
                      ELSE <<>>) \o Actions(k + 1)
        RECURSIVE TextParts(_)
        TextParts(k) ==
            IF k > Len(content) THEN <<>>
            ELSE LET block == content[k]
                 IN  (IF block.cls = "TextContent"
                         /\ ~StartsWith(block.text[2], THINKING_FALLBACK_1)
                         /\ ~StartsWith(block.text[2], THINKING_FALLBACK_2)
                      THEN <<block.text[2]>>
                      ELSE <<>>) \o TextParts(k + 1)
        text_parts == TextParts(1)
    IN  [actions |-> Actions(1),
         final_text |-> IF text_parts # <<>> THEN Str(Join(<<"\n">>, text_parts)) ELSE None,
         has_tool_use |-> \E k \in 1..Len(content) : content[k].cls = "ToolUseContent"]

\* results[key] = value on a dict that keeps its keys in insertion order:
\* a sequence of <<key, value>> pairs
DictSet(results, key, value) ==
    IF \E k \in 1..Len(results) : results[k][1] = key
    THEN [k \in 1..Len(results) |->
             IF results[k][1] = key THEN <<key, value>> ELSE results[k]]
    ELSE Append(results, <<key, value>>)

_extract_tool_results(entry) ==
    LET content == entry.message.content
        RECURSIVE Results(_, _)
        Results(k, results) ==
            IF k > Len(content) THEN results
            ELSE LET block == content[k]
                 IN  IF block.cls = "ToolResultContent"
                     THEN LET content_str == IF IsStr(block.content) THEN block.content
                                             ELSE json_dumps(block.content)
                          IN  Results(k + 1, DictSet(results, block.tool_use_id,
                                                     <<content_str, block.is_error>>))
                     ELSE Results(k + 1, results)
    IN  Results(1, <<>>)

\* the decimal digits of a natural number
RECURSIVE Decimal(_)
Decimal(n) ==
    LET digit == <<"0", "1", "2", "3", "4", "5", "6", "7", "8", "9">>
    IN  IF n < 10 THEN <<digit[n + 1]>> ELSE Decimal(n \div 10) \o <<digit[(n % 10) + 1]>>

\* mutant: with no action of that id, the first tool_use action still
\* without a result is taken
_find_tool_use_action_Positional(current_interaction, tool_id) ==
    IF current_interaction = <<>> THEN 0
    ELSE LET actions == current_interaction[1].actions
             hits == {k \in 1..Len(actions) :
                         actions[k].action_type = "tool_use" /\ actions[k].tool_id = tool_id}
             open == {k \in 1..Len(actions) :
                         actions[k].action_type = "tool_use" /\ actions[k].tool_result = None}
         IN  IF hits # {} THEN Min(hits) ELSE IF open # {} THEN Min(open) ELSE 0

\* mutant: the last tool_use action with the id is taken
_find_tool_use_action_Last(current_interaction, tool_id) ==
    IF current_interaction = <<>> THEN 0
    ELSE LET actions == current_interaction[1].actions
             hits == {k \in 1..Len(actions) :
                         actions[k].action_type = "tool_use" /\ actions[k].tool_id = tool_id}
         IN  IF hits = {} THEN 0 ELSE Max(hits)

\* the position in the current interaction's action list of the first
\* tool_use action with this tool_id; 0 when there is none
_find_tool_use_action(current_interaction, tool_id) ==
    IF current_interaction = <<>> THEN 0
    ELSE LET actions == current_interaction[1].actions
             hits == {k \in 1..Len(actions) :
                         actions[k].action_type = "tool_use" /\ actions[k].tool_id = tool_id}
         IN  IF hits = {} THEN 0 ELSE Min(hits)

\* the locals of build_interactions as the function starts
BuildStart ==
    [interactions |-> <<>>, current_interaction |-> <<>>, interaction_counter |-> 0]

\* the tool-result branch: each (tool_id, result) of the dict, in its order,
\* is written to the action that _find_tool_use_action returns
RECURSIVE MatchResults(_, _, _)
MatchResults(current_interaction, tool_results, k) ==
    IF k > Len(tool_results) THEN current_interaction
    ELSE LET tool_id == tool_results[k][1]
             result_content == tool_results[k][2][1]
             is_error == tool_results[k][2][2]
             tool_action == _find_tool_use_action(current_interaction, tool_id)
         IN  IF tool_action # 0
             THEN MatchResults(
                      [current_interaction EXCEPT
                          ![1].actions[tool_action].tool_result = result_content,
                          ![1].actions[tool_action].is_error = is_error],
                      tool_results, k + 1)
             ELSE MatchResults(current_interaction, tool_results, k + 1)

\* a human message: the previous interaction is saved, a new one started
OnHumanMessage(b, entry) ==
    LET cur == b.current_interaction
    IN  [interactions |-> IF cur # <<>> THEN Append(b.interactions, cur[1])
                          ELSE b.interactions,
         interaction_counter |-> b.interaction_counter + 1,
         current_interaction |->
             <<Interaction(Str(<<"interaction-">> \o Decimal(b.interaction_counter + 1)),
                           entry.timestamp, _get_text_content(entry))>>]

\* mutant: the cancellation branch also attaches the entry's tool results
OnUserEntry_CancelAttachesResults(b, entry) ==
    LET cur == b.current_interaction
    IN  IF cur # <<>>
        THEN LET text == _get_text_content(entry)
                 matched == MatchResults(cur, _extract_tool_results(entry), 1)
             IN  IF _is_cancellation_message(text)
                 THEN [b EXCEPT !.current_interaction =
                          <<[matched[1] EXCEPT !.cancel_reason = Str(Strip(text[2]))]>>]
                 ELSE IF _is_auto_compact_message(text)
                 THEN [b EXCEPT !.current_interaction[1].actions =
                                    Append(@, [Action("auto_compact", entry.timestamp)
                                                  EXCEPT !.summary = text])]
                 ELSE [b EXCEPT !.current_interaction = matched]
        ELSE b

\* mutant: tool results are also looked up in the interactions already
\* saved to the output list
OnUserEntry_ResolvesFlushed(b, entry) ==
    LET cur == b.current_interaction
    IN  IF cur # <<>>
        THEN LET text == _get_text_content(entry)
             IN  IF _is_cancellation_message(text)
                 THEN [b EXCEPT !.current_interaction[1].cancel_reason =
                                    Str(Strip(text[2]))]
                 ELSE IF _is_auto_compact_message(text)
                 THEN [b EXCEPT !.current_interaction[1].actions =
                                    Append(@, [Action("auto_compact", entry.timestamp)
                                                  EXCEPT !.summary = text])]
                 ELSE [b EXCEPT
                          !.current_interaction =
                              MatchResults(cur, _extract_tool_results(entry), 1),
                          !.interactions =
                              [n \in 1..Len(b.interactions) |->
                                  MatchResults(<<b.interactions[n]>>,
                                               _extract_tool_results(entry), 1)[1]]]
        ELSE b

\* a user entry that is no human message: cancellation, auto-compact or
\* tool results
OnUserEntry(b, entry) ==
    LET cur == b.current_interaction
    IN  IF cur # <<>>
        THEN LET text == _get_text_content(entry)
             IN  IF _is_cancellation_message(text)
                 THEN [b EXCEPT !.current_interaction[1].cancel_reason =
                                    Str(Strip(text[2]))]
                 ELSE IF _is_auto_compact_message(text)
                 THEN [b EXCEPT !.current_interaction[1].actions =
                                    Append(@, [Action("auto_compact", entry.timestamp)
                                                  EXCEPT !.summary = text])]
                 ELSE [b EXCEPT !.current_interaction =
                                    MatchResults(cur, _extract_tool_results(entry), 1)]
        ELSE b

\* mutant: an assistant entry met while no interaction is active starts one
\* with an empty prompt
OnAssistantEntry_StartsInteraction(b, entry) ==
    LET cur == IF b.current_interaction # <<>> THEN b.current_interaction
               ELSE <<Interaction(Str(<<"interaction-", "0">>), entry.timestamp, Str(<<>>))>>
        ex == _extract_actions_from_assistant(entry)
        text == ex.final_text
        model == IF cur[1].model = None /\ Truthy(entry.message.model)
                 THEN entry.message.model ELSE cur[1].model
        extended == cur[1].actions \o ex.actions
    IN  IF Truthy(text)
        THEN [b EXCEPT !.current_interaction =
                 <<[cur[1] EXCEPT
                     !.actions = Append(extended,
                         [Action("text", entry.timestamp) EXCEPT !.text = text]),
                     !.model = model,
                     !.final_response =
                         IF Truthy(cur[1].final_response)
                         THEN Str(cur[1].final_response[2] \o <<"\n">> \o text[2])
                         ELSE text]>>]
        ELSE [b EXCEPT !.current_interaction =
                 <<[cur[1] EXCEPT !.actions = extended, !.model = model]>>]

\* mutant: the text of a later assistant entry replaces final_response
OnAssistantEntry_Overwrite(b, entry) ==
    LET cur == b.current_interaction
    IN  IF cur # <<>>
        THEN LET ex == _extract_actions_from_assistant(entry)
                 text == ex.final_text
                 model == IF cur[1].model = None /\ Truthy(entry.message.model)
                          THEN entry.message.model ELSE cur[1].model
                 extended == cur[1].actions \o ex.actions
             IN  IF Truthy(text)
                 THEN [b EXCEPT !.current_interaction[1] =
                          [cur[1] EXCEPT
                              !.actions = Append(extended,
                                  [Action("text", entry.timestamp) EXCEPT !.text = text]),
                              !.model = model,
                              !.final_response = text]]
                 ELSE [b EXCEPT !.current_interaction[1] =
                          [cur[1] EXCEPT !.actions = extended, !.model = model]]
        ELSE b

\* an assistant response
OnAssistantEntry(b, entry) ==
    LET cur == b.current_interaction
    IN  IF cur # <<>>
        THEN LET ex == _extract_actions_from_assistant(entry)
                 text == ex.final_text
                 model == IF cur[1].model = None /\ Truthy(entry.message.model)
                          THEN entry.message.model ELSE cur[1].model
                 extended == cur[1].actions \o ex.actions
             IN  IF Truthy(text)
                 THEN [b EXCEPT !.current_interaction[1] =
                          [cur[1] EXCEPT
                              !.actions = Append(extended,
                                  [Action("text", entry.timestamp) EXCEPT !.text = text]),
                              !.model = model,
                              !.final_response =
                                  IF Truthy(cur[1].final_response)
                                  THEN Str(cur[1].final_response[2] \o <<"\n">> \o text[2])
                                  ELSE text]]
                 ELSE [b EXCEPT !.current_interaction[1] =
                          [cur[1] EXCEPT !.actions = extended, !.model = model]]
        ELSE b

\* one iteration of the loop of build_interactions over entry
ForBody(b, entry) ==
    IF entry.cls \in {"SystemEntry", "SummaryEntry"} THEN b
    ELSE IF _is_human_message(entry) THEN OnHumanMessage(b, entry)
    ELSE IF entry.cls = "UserEntry" THEN OnUserEntry(b, entry)
    ELSE IF entry.cls = "AssistantEntry" THEN OnAssistantEntry(b, entry)
    ELSE b

\* mutant: the interaction in progress at the end of the input is dropped
BuildReturn_NoFlush(b) == b.interactions

\* after the loop: the last interaction is appended and the list returned
BuildReturn(b) ==
    IF b.current_interaction # <<>>
    THEN Append(b.interactions, b.current_interaction[1])
    ELSE b.interactions

(* --------------------- the builder's input entries --------------------- *)
RawText(chars) == Dict([type |-> Str(<<"text">>), text |-> Str(chars)])
RawThinking(chars) == Dict([type |-> Str(<<"thinking">>), thinking |-> Str(chars)])
RawToolUse(id, name) ==
    Dict([type |-> Str(<<"tool_use">>), id |-> Str(id), name |-> Str(name),
          input |-> EmptyDict])
RawToolResult(id, content) ==
    Dict([type |-> Str(<<"tool_result">>), tool_use_id |-> Str(id), content |-> content])
RawToolError(id, content) ==
    Dict([type |-> Str(<<"tool_result">>), tool_use_id |-> Str(id), content |-> content,
          is_error |-> Bool(TRUE)])
RawUser(body, content) ==
    Dict([type |-> Str(<<"user">>), timestamp |-> Str(<<body, "Z">>),
          message |-> Dict([role |-> Str(<<"user">>), content |-> content])])
RawAssistant(body, model, content) ==
    Dict([type |-> Str(<<"assistant">>), timestamp |-> Str(<<body, "Z">>),
          message |-> Dict([role |-> Str(<<"assistant">>), model |-> Str(model),
                            content |-> content])])
RawSystem(body) ==
    Dict([type |-> Str(<<"system">>), timestamp |-> Str(<<body, "Z">>),
          content |-> Str(<<"note">>)])

T1 == "2025-01-01T10:00:01"
T2 == "2025-01-01T10:00:02"
T3 == "2025-01-01T10:00:03"
CANCEL_PLAIN == <<"[Request interrupted by user", "]">>
CANCEL_TOOL == <<"[Request interrupted by user", " for tool use", "]">>

RawBuildPool ==
    { RawUser(T1, Str(<<"Fix the bug">>)),
      RawUser(T2, List(<<RawText(<<"a">>), RawText(<<"b">>)>>)),
      RawAssistant(T3, <<"m1">>,
          List(<<RawText(<<"Let me">>), RawThinking(<<"hmm">>),
                 RawToolUse(<<"t1">>, <<"run_tests">>)>>)),
      RawAssistant(T3, <<>>, List(<<RawText(<<"Fixed, rerun">>)>>)),
      RawUser(T3, List(<<RawToolError(<<"t1">>, Str(<<"2 failed">>))>>)),
      RawUser(T3, List(<<RawToolError(<<"t1">>, Str(<<"stale">>)),
                         RawToolError(<<"t2">>, Str(<<"x">>)),
                         RawToolResult(<<"t1">>, List(<<RawText(<<"ok">>)>>))>>)),
      RawUser(T3, Str(CANCEL_PLAIN)),
      RawUser(T3, List(<<RawText(CANCEL_TOOL), RawToolResult(<<"t1">>, Str(<<"late">>))>>)),
      RawUser(T3, List(<<RawText(<<CANCEL_PLAIN[1]>>), RawText(<<CANCEL_PLAIN[2]>>)>>)),
      RawUser(T3, Str(<<" ">> \o AUTO_COMPACT_PREFIX \o <<"summary">>)),
      RawUser(T3, Str(<<"x">> \o COMMAND_NAME \o <<"y">>)),
      RawUser(T3, Str(CAVEAT_PREFIX \o <<"...">>)),
      RawUser(T3, Str(<<"x">> \o CAVEAT_PREFIX)),
      RawSystem(T3) }

\* the entries parse_entry makes of them
EntryPool == {Val(parse_entry(d, "now-1")) : d \in RawBuildPool}

(* ------------------------------- state --------------------------------- *)
VARIABLES
    entries,              \* list[Entry]: the builder's argument, Session.entries
    interactions,         \* build_interactions: the output list
    current_interaction,  \* build_interactions: <<>> is None, <<x>> is x
    interaction_counter,  \* build_interactions: the counter
    pos,                  \* how many entries the loop has taken
    calls,                \* Session.interactions: the calls that have returned
    previous,             \* Session.interactions: what the call before returned
    lines,                \* parse_session_file: the lines of the file read so far
    exception,            \* the exception that reached the caller, or None
    root_index,           \* get_conversations: how many roots the loop has taken
    stack,                \* get_conversations: the entries still to visit
    thread,               \* get_conversations: the thread being collected
    conversations,        \* get_conversations: the threads collected
    mismatched,           \* verify_roundtrip: the line numbers that differ
    blocks,               \* serialize_content: the content blocks
    original_content,     \* serialize_content: the content as it was decoded
    file_name,            \* extract_numeric_id: the name of the file
    ret,                  \* what the function returned
    pc                    \* where the running function is

buildVars == <<interactions, current_interaction, interaction_counter>>
callVars == <<pos, calls, previous>>
fileVars == <<lines, exception>>
convVars == <<root_index, stack, thread, conversations>>
utilVars == <<mismatched, blocks, original_content, file_name, ret>>
vars == <<entries, buildVars, callVars, fileVars, convVars, utilVars, pc>>

Builder ==
    [interactions |-> interactions, current_interaction |-> current_interaction,
     interaction_counter |-> interaction_counter]

SetBuilder(b) ==
    /\ interactions' = b.interactions
    /\ current_interaction' = b.current_interaction
    /\ interaction_counter' = b.interaction_counter

\* the variables of a function that has not run
NoBuild ==
    /\ interactions = BuildStart.interactions
    /\ current_interaction = BuildStart.current_interaction
    /\ interaction_counter = BuildStart.interaction_counter
NoCalls == pos = 0 /\ calls = 0 /\ previous = <<>>
NoFile == lines = <<>> /\ exception = None
NoConv == root_index = 0 /\ stack = <<>> /\ thread = <<>> /\ conversations = <<>>
NoUtil ==
    /\ mismatched = <<>>
    /\ blocks = <<>>
    /\ original_content = None
    /\ file_name = <<>>
    /\ ret = None

(* --------------- build_interactions over a growing input --------------- *)
Init ==
    /\ entries = <<>>
    /\ NoBuild
    /\ NoCalls
    /\ NoFile
    /\ NoConv
    /\ NoUtil
    /\ pc = "loop"

\* the loop takes the next entry of the list
ForEntry ==
    /\ pc = "loop"
    /\ Len(entries) < MaxEntries
    /\ \E entry \in EntryPool :
          /\ entries' = Append(entries, entry)
          /\ SetBuilder(ForBody(Builder, entry))
    /\ pos' = pos + 1
    /\ pc' = "loop"
    /\ UNCHANGED <<calls, previous, fileVars, convVars, utilVars>>

\* the list is exhausted: flush and return
Return ==
    /\ pc = "loop"
    /\ interactions' = BuildReturn(Builder)
    /\ pc' = "returned"
    /\ UNCHANGED <<entries, current_interaction, interaction_counter, callVars, fileVars, convVars, utilVars>>

Next == ForEntry \/ Return

Spec == Init /\ [][Next]_vars

(* ------------- Session.interactions, read twice on a session ----------- *)
\* the sequences over S of length at most n
SeqsUpTo(S, n) == UNION {[1..k -> S] : k \in 0..n}

\* mutant: the counter lives on between calls
Restart_KeepCounter(b) ==
    [BuildStart EXCEPT !.interaction_counter = b.interaction_counter]

\* the locals of a new call of build_interactions
Restart(b) == BuildStart

InitTwice ==
    /\ entries \in SeqsUpTo(EntryPool, MaxRerunLen)
    /\ NoBuild
    /\ NoCalls
    /\ NoFile
    /\ NoConv
    /\ NoUtil
    /\ pc = "loop"

LoopEntry ==
    /\ pc = "loop"
    /\ pos < Len(entries)
    /\ SetBuilder(ForBody(Builder, entries[pos + 1]))
    /\ pos' = pos + 1
    /\ UNCHANGED <<entries, calls, previous, fileVars, convVars, pc, utilVars>>

LoopEnd ==
    /\ pc = "loop"
    /\ pos = Len(entries)
    /\ interactions' = BuildReturn(Builder)
    /\ calls' = calls + 1
    /\ pc' = "returned"
    /\ UNCHANGED <<entries, current_interaction, interaction_counter, pos, previous, fileVars, convVars, utilVars>>

\* the property is read again: build_interactions(self.entries) anew
CallAgain ==
    /\ pc = "returned"
    /\ calls < 2
    /\ previous' = interactions
    /\ SetBuilder(Restart(Builder))
    /\ pos' = 0
    /\ pc' = "loop"
    /\ UNCHANGED <<entries, calls, fileVars, convVars, utilVars>>

NextTwice == LoopEntry \/ LoopEnd \/ CallAgain

SpecTwice == InitTwice /\ [][NextTwice]_vars

(* --------------------------- parse_session_file ------------------------ *)
\* A line of the file: only whitespace, the JSON text of a value, or text
\* that is no JSON document.
BlankLine == <<"blank">>
GarbageLine == <<"garbage">>
JsonLine(v) == <<"text", v>>

\* line.strip() is empty
IsEmptyLine(line) == line[1] = "blank"

json_loads(line) ==
    IF line[1] = "text" THEN Ok(line[2]) ELSE Raise("JSONDecodeError")

\* the records the lines of the file hold: every entry type, and a user
\* record with every kind of timestamp value
WithTimestamp(ts) ==
    Dict([type |-> Str(<<"user">>), uuid |-> Str(<<"u2">>), timestamp |-> ts,
          message |-> Dict([role |-> Str(<<"user">>), content |-> Str(<<"hi">>)])])

RawParsePool ==
    { Dict([type |-> Str(<<"user">>), uuid |-> Str(<<"u1">>),
            message |-> Dict([role |-> Str(<<"user">>), content |-> Str(<<"hi">>)])]),
      Dict([type |-> Str(<<"assistant">>), uuid |-> Str(<<"a1">>),
            parentUuid |-> Str(<<"u1">>), timestamp |-> Str(<<T2, "Z">>),
            message |-> Dict([role |-> Str(<<"assistant">>),
                              content |-> List(<<RawText(<<"ok">>)>>),
                              usage |-> Dict([input_tokens |-> Num(3)])])]),
      Dict([type |-> Str(<<"system">>), uuid |-> Str(<<"s1">>),
            timestamp |-> Str(<<T3, "Z">>), content |-> Str(<<"note">>)]),
      Dict([type |-> Str(<<"file-history-snapshot">>), messageId |-> Str(<<"f1">>),
            snapshot |-> Dict([timestamp |-> Str(<<T1, "Z">>)])]),
      Dict([type |-> Str(<<"summary">>), summary |-> Str(<<"sum">>),
            leafUuid |-> Str(<<"a1">>)]),
      Dict([type |-> Str(<<"queue-operation">>), operation |-> Str(<<"enqueue">>),
            timestamp |-> Str(<<T1, "Z">>)]),
      Dict([type |-> Str(<<"progress">>), uuid |-> Str(<<"p1">>),
            timestamp |-> Str(<<T1, "Z">>)]),
      Dict([uuid |-> Str(<<"n1">>), timestamp |-> Str(<<T1, "Z">>)]),
      WithTimestamp(Str(<<T1, "Z">>)),
      WithTimestamp(Str(<<T1>>)),
      WithTimestamp(Str(<<>>)),
      WithTimestamp(Str(<<"yesterday">>)),
      WithTimestamp(None),
      WithTimestamp(Num(0)),
      WithTimestamp(Num(12345)),
      WithTimestamp(List(<<Num(2025)>>)),
      Dict([type |-> Str(<<"user">>), uuid |-> Str(<<"u3">>),
            timestamp |-> Str(<<T1, "Z">>), message |-> Str(<<"hi">>)]),
      Dict([type |-> Str(<<"file-history-snapshot">>), messageId |-> Str(<<"f2">>),
            snapshot |-> None]) }

LinePool ==
    {BlankLine, GarbageLine, JsonLine(Num(42))} \cup {JsonLine(d) : d \in RawParsePool}

\* the body of the loop over the lines: the entries after the line, or the
\* exception that leaves the function
LineBody(parsed, line, clock) ==
    IF IsEmptyLine(line) THEN Ok(parsed)
    ELSE LET d == json_loads(line)
         IN  IF ~IsOk(d)
             THEN (IF d = Raise("JSONDecodeError") THEN Ok(parsed) ELSE d)
             ELSE LET entry == parse_entry(Val(d), clock)
                  IN  IF IsOk(entry) THEN Ok(Append(parsed, Val(entry)))
                      ELSE IF entry = Raise("JSONDecodeError") THEN Ok(parsed)
                      ELSE entry

InitParse ==
    /\ entries = <<>>
    /\ NoBuild
    /\ NoCalls
    /\ NoFile
    /\ NoConv
    /\ NoUtil
    /\ pc = "reading"

\* the next line of the file is read
ReadLine ==
    /\ pc = "reading"
    /\ Len(lines) < MaxLines
    /\ \E line \in LinePool, clock \in Clock :
          LET after == LineBody(entries, line, clock)
          IN  /\ lines' = Append(lines, line)
              /\ IF IsOk(after)
                 THEN entries' = Val(after) /\ UNCHANGED <<exception, pc>>
                 ELSE /\ exception' = Str(<<after[2]>>)
                      /\ pc' = "raised"
                      /\ UNCHANGED entries
    /\ UNCHANGED <<buildVars, callVars, convVars, utilVars>>

\* the file is exhausted: Session(file_path, entries) is returned
EndOfFile ==
    /\ pc = "reading"
    /\ pc' = "returned"
    /\ UNCHANGED <<entries, buildVars, callVars, fileVars, convVars, utilVars>>

NextParse == ReadLine \/ EndOfFile

SpecParse == InitParse /\ [][NextParse]_vars

(* ----------------------- Session.get_conversations --------------------- *)
\* a record with a uuid and, unless parent is None, a parentUuid
Linked(d, uuid, parent) ==
    LET named == With(d[2], "uuid", Str(<<uuid>>))
    IN  Dict(IF parent = None THEN named ELSE With(named, "parentUuid", parent))

Parents == {None, Str(<<"a">>), Str(<<"b">>)}

RawConvPool ==
    {Linked(RawUser(T1, Str(<<"hi">>)), uuid, parent) :
        uuid \in {"a", "b"}, parent \in Parents}
    \cup {Linked(RawAssistant(T2, <<"m1">>, List(<<RawText(<<"ok">>)>>)), "b", Str(<<"a">>)),
          Linked(RawAssistant(T2, <<"m1">>, List(<<RawText(<<"ok">>)>>)), "a", None),
          Linked(RawSystem(T3), "a", None),
          Linked(RawSystem(T3), "b", None),
          Linked(RawSystem(T3), "b", Str(<<"a">>)),
          RawSystem(T3)}

ConvPool == {Val(parse_entry(d, "now-1")) : d \in RawConvPool}

\* mutant: the children are pushed in their order in the session
Reverse_Forward(s) == s

Reverse(s) == [k \in 1..Len(s) |-> s[Len(s) + 1 - k]]

\* the map from uuid to entry: a later entry replaces an earlier one
uuid_to_entry(es) ==
    [u \in {es[k].uuid : k \in {j \in 1..Len(es) : Truthy(es[j].uuid)}} |->
        es[Max({k \in 1..Len(es) : es[k].uuid = u})]]

IsRoot(es, e) ==
    ~Truthy(parent_uuid(e)) \/ parent_uuid(e) \notin DOMAIN uuid_to_entry(es)

roots(es) == SelectSeq(es, LAMBDA e : IsRoot(es, e))

\* mutant: an entry that carries the uuid of a root is nobody's child
children_NoBackToRoot(es) ==
    [u \in {parent_uuid(es[k]) : k \in {j \in 1..Len(es) : ~IsRoot(es, es[j])}} |->
        SelectSeq(es, LAMBDA e :
            /\ ~IsRoot(es, e)
            /\ parent_uuid(e) = u
            /\ \A k \in 1..Len(roots(es)) : roots(es)[k].uuid # e.uuid)]

\* mutant: an entry is listed among the children of its own uuid
children_WithSelf(es) ==
    [u \in {parent_uuid(es[k]) : k \in {j \in 1..Len(es) : ~IsRoot(es, es[j])}} |->
        SelectSeq(es, LAMBDA e : (~IsRoot(es, e) /\ parent_uuid(e) = u) \/ e.uuid = u)]

children(es) ==
    [u \in {parent_uuid(es[k]) : k \in {j \in 1..Len(es) : ~IsRoot(es, es[j])}} |->
        SelectSeq(es, LAMBDA e : ~IsRoot(es, e) /\ parent_uuid(e) = u)]

IsUserOrAssistant(e) == e.cls \in {"UserEntry", "AssistantEntry"}

InitConv ==
    /\ entries \in SeqsUpTo(ConvPool, MaxSessionLen)
    /\ NoBuild
    /\ NoCalls
    /\ NoFile
    /\ NoConv
    /\ NoUtil
    /\ pc = "roots"

\* for root in roots: a User or Assistant root starts a thread
NextRoot ==
    /\ pc = "roots"
    /\ root_index < Len(roots(entries))
    /\ root_index' = root_index + 1
    /\ LET root == roots(entries)[root_index + 1]
       IN  IF IsUserOrAssistant(root)
           THEN thread' = <<>> /\ stack' = <<root>> /\ pc' = "while"
           ELSE UNCHANGED <<thread, stack, pc>>
    /\ UNCHANGED <<entries, buildVars, callVars, fileVars, conversations, utilVars>>

\* while stack: pop an entry, append it to the thread, push its children
WhileStep ==
    /\ pc = "while"
    /\ stack # <<>>
    /\ Len(thread) < MaxThread
    /\ LET entry == stack[Len(stack)]
           rest == SubSeq(stack, 1, Len(stack) - 1)
       IN  /\ thread' = Append(thread, entry)
           /\ stack' = IF entry.uuid \in DOMAIN children(entries)
                       THEN rest \o Reverse(children(entries)[entry.uuid])
                       ELSE rest
    /\ UNCHANGED <<entries, buildVars, callVars, fileVars, root_index, conversations, pc, utilVars>>

\* the stack is empty: the thread joins the conversations
EndWhile ==
    /\ pc = "while"
    /\ stack = <<>>
    /\ conversations' = IF thread # <<>> THEN Append(conversations, thread)
                        ELSE conversations
    /\ pc' = "roots"
    /\ UNCHANGED <<entries, buildVars, callVars, fileVars, root_index, stack, thread, utilVars>>

\* return conversations
ReturnConv ==
    /\ pc = "roots"
    /\ root_index = Len(roots(entries))
    /\ pc' = "returned"
    /\ UNCHANGED <<entries, buildVars, callVars, fileVars, convVars, utilVars>>

NextConv == NextRoot \/ WhileStep \/ EndWhile \/ ReturnConv

SpecConv == InitConv /\ [][NextConv]_vars

(* ------------- get_conversations on sessions with branches ------------- *)
\* Sessions of up to MaxTreeLen entries: a root with children and a
\* grandchild, siblings, entries that share a uuid, an entry without a
\* uuid, a back-reference and an entry that is no message.
RawTreePool ==
    {Linked(RawUser(T1, Str(<<"hi">>)), "a", None),
     Linked(RawUser(T1, Str(<<"hi">>)), "b", Str(<<"a">>)),
     Linked(RawUser(T1, Str(<<"hi">>)), "c", Str(<<"a">>)),
     Linked(RawUser(T1, Str(<<"hi">>)), "a", Str(<<"b">>)),
     Dict(With(RawUser(T1, Str(<<"hi">>))[2], "parentUuid", Str(<<"b">>))),
     Linked(RawAssistant(T2, <<"m1">>, List(<<RawText(<<"ok">>)>>)), "b", Str(<<"a">>)),
     Linked(RawSystem(T3), "b", Str(<<"a">>))}

TreePool == {Val(parse_entry(d, "now-1")) : d \in RawTreePool}

InitThreads ==
    /\ entries \in SeqsUpTo(TreePool, MaxTreeLen)
    /\ NoBuild
    /\ NoCalls
    /\ NoFile
    /\ NoConv
    /\ NoUtil
    /\ pc = "roots"

SpecThreads == InitThreads /\ [][NextConv]_vars

\* the interpreter runs the function as long as it has a step to take
SpecThreadsFair == SpecThreads /\ WF_vars(NextConv)

(* ----------------------------- verify_roundtrip ------------------------ *)
\* mutant: a line that does not decode is reported as a mismatch
VerifyBody_MalformedMismatch(mism, line, line_num, clock) ==
    IF IsEmptyLine(line) THEN Ok(mism)
    ELSE LET original == json_loads(line)
         IN  IF ~IsOk(original) THEN Ok(Append(mism, line_num))
             ELSE LET entry == parse_entry(Val(original), clock)
                  IN  IF ~IsOk(entry) THEN entry
                      ELSE IF Val(original) # to_dict(Val(entry))
                           THEN Ok(Append(mism, line_num))
                           ELSE Ok(mism)

\* the body of the loop over the numbered lines: the mismatched list after
\* the line, or the exception that leaves the function
VerifyBody(mism, line, line_num, clock) ==
    IF IsEmptyLine(line) THEN Ok(mism)
    ELSE LET original == json_loads(line)
         IN  IF ~IsOk(original)
             THEN (IF original = Raise("JSONDecodeError") THEN Ok(mism) ELSE original)
             ELSE LET entry == parse_entry(Val(original), clock)
                  IN  IF ~IsOk(entry)
                      THEN (IF entry = Raise("JSONDecodeError") THEN Ok(mism) ELSE entry)
                      ELSE IF Val(original) # to_dict(Val(entry))
                           THEN Ok(Append(mism, line_num))
                           ELSE Ok(mism)

InitVerify ==
    /\ entries = <<>>
    /\ NoBuild
    /\ NoCalls
    /\ NoFile
    /\ NoConv
    /\ NoUtil
    /\ pc = "verifying"

\* the next line of the file is read; enumerate(f, 1) numbers it
VerifyLine ==
    /\ pc = "verifying"
    /\ Len(lines) < MaxLines
    /\ \E line \in LinePool, clock \in Clock :
          LET after == VerifyBody(mismatched, line, Len(lines) + 1, clock)
          IN  /\ lines' = Append(lines, line)
              /\ IF IsOk(after)
                 THEN mismatched' = Val(after) /\ UNCHANGED <<exception, pc>>
                 ELSE /\ exception' = Str(<<after[2]>>)
                      /\ pc' = "raised"
                      /\ UNCHANGED mismatched
    /\ UNCHANGED <<entries, buildVars, callVars, convVars, blocks, original_content,
                   file_name, ret>>

\* return (len(mismatched) == 0, mismatched)
VerifyReturn ==
    /\ pc = "verifying"
    /\ ret' = <<Bool(Len(mismatched) = 0), mismatched>>
    /\ pc' = "returned"
    /\ UNCHANGED <<entries, buildVars, callVars, fileVars, convVars, mismatched, blocks,
                   original_content, file_name>>

NextVerify == VerifyLine \/ VerifyReturn

SpecVerify == InitVerify /\ [][NextVerify]_vars

(* ------------------- parse_content and serialize_content --------------- *)
\* the content of a message as it is decoded: a string, a list of block
\* records, or neither
Texts == SeqsUpTo({"a", "b"}, MaxText)

OriginalPool ==
    {Str(t) : t \in Texts}
    \cup {None, Num(7), List(<<>>), List(<<RawText(<<"a">>)>>),
          List(<<RawText(<<"a">>), RawToolUse(<<"t1">>, <<"Bash">>), RawText(<<"b">>)>>)}

\* blocks as the dataclasses declare them
BlockPool ==
    {parse_content_block(d) :
        d \in {RawText(<<>>), RawText(<<"a">>), RawText(<<"a", "b">>), RawThinking(<<"hm">>),
               RawToolUse(<<"t1">>, <<"Bash">>), RawToolError(<<"t1">>, Str(<<"no">>))}}

InitContent ==
    /\ entries = <<>>
    /\ NoBuild
    /\ NoCalls
    /\ NoFile
    /\ NoConv
    /\ mismatched = <<>>
    /\ blocks = <<>>
    /\ original_content \in OriginalPool
    /\ file_name = <<>>
    /\ ret = None
    /\ pc = "message"

\* the blocks are the parse of the message's content
ParseContent ==
    /\ pc = "message"
    /\ blocks' = parse_content(original_content)
    /\ pc' = "parsed"
    /\ UNCHANGED <<entries, buildVars, callVars, fileVars, convVars, mismatched,
                   original_content, file_name, ret>>

\* the caller passes blocks of its own
GivenBlocks ==
    /\ pc = "message"
    /\ blocks' \in SeqsUpTo(BlockPool, MaxBlocks)
    /\ pc' = "given"
    /\ UNCHANGED <<entries, buildVars, callVars, fileVars, convVars, mismatched,
                   original_content, file_name, ret>>

SerializeContent ==
    /\ pc \in {"parsed", "given"}
    /\ ret' = serialize_content(blocks, original_content)
    /\ pc' = "returned"
    /\ UNCHANGED <<entries, buildVars, callVars, fileVars, convVars, mismatched, blocks,
                   original_content, file_name>>

NextContent == ParseContent \/ GivenBlocks \/ SerializeContent

SpecContent == InitContent /\ [][NextContent]_vars

(* -------------------- server.py: extract_numeric_id -------------------- *)
\* The characters of a file name: decimal digits, a character that
\* str.isdigit() accepts and int() rejects (the superscript two), the
\* underscore, a letter, and the extension ".jsonl" as one character.
DecimalDigits == {"0", "2", "4"}
SUPERSCRIPT_TWO == "sup2"
EXTENSION == ".jsonl"
NameChars == DecimalDigits \cup {SUPERSCRIPT_TWO, "_", "a", EXTENSION}

\* str.isdigit(): not empty, and every character is a digit of some kind
isdigit(chars) ==
    /\ chars # <<>>
    /\ \A k \in 1..Len(chars) : chars[k] \in DecimalDigits \cup {SUPERSCRIPT_TWO}

DigitValue(c) == CASE c = "0" -> 0 [] c = "2" -> 2 [] c = "4" -> 4

\* int(chars) of a string of decimal digits
RECURSIVE Base10(_)
Base10(chars) ==
    IF chars = <<>> THEN 0
    ELSE 10 * Base10(SubSeq(chars, 1, Len(chars) - 1)) + DigitValue(chars[Len(chars)])

\* int(chars): ValueError unless the string is a decimal literal
int(chars) ==
    IF chars # <<>> /\ \A k \in 1..Len(chars) : chars[k] \in DecimalDigits
    THEN Ok(Num(Base10(chars)))
    ELSE Raise("ValueError")

\* stem.split('_', 1)[0]
FirstPart(stem) ==
    LET at == {k \in 1..Len(stem) : stem[k] = "_"}
    IN  IF at = {} THEN stem ELSE SubSeq(stem, 1, Min(at) - 1)

extract_numeric_id(name) ==
    LET stem == Replace(name, EXTENSION, <<>>)
        first == FirstPart(stem)
    IN  IF isdigit(first) THEN int(first) ELSE Ok(None)

InitName ==
    /\ entries = <<>>
    /\ NoBuild
    /\ NoCalls
    /\ NoFile
    /\ NoConv
    /\ mismatched = <<>>
    /\ blocks = <<>>
    /\ original_content = None
    /\ file_name \in SeqsUpTo(NameChars, MaxName)
    /\ ret = None
    /\ pc = "call"

ExtractNumericId ==
    /\ pc = "call"
    /\ LET r == extract_numeric_id(file_name)
       IN  IF IsOk(r)
           THEN ret' = Val(r) /\ pc' = "returned" /\ UNCHANGED exception
           ELSE exception' = Str(<<r[2]>>) /\ pc' = "raised" /\ UNCHANGED ret
    /\ UNCHANGED <<entries, buildVars, callVars, lines, convVars, mismatched, blocks,
                   original_content, file_name>>

NextName == ExtractNumericId

SpecName == InitName /\ [][NextName]_vars

(* ======================= claims: the builder =========================== *)
\* What the claims speak of, stated apart from the builder's own helpers.
IsTextBlock(block) == block.cls = "TextContent"
IsToolResultBlock(block) == block.cls = "ToolResultContent"

\* the texts of the Text blocks of an entry, joined by sep
RECURSIVE BlockTexts(_, _)
BlockTexts(content, sep) ==
    IF content = <<>> THEN <<>>
    ELSE LET rest == SelectSeq(Tail(content), IsTextBlock)
         IN  IF ~IsTextBlock(Head(content)) THEN BlockTexts(Tail(content), sep)
             ELSE IF rest = <<>> THEN Head(content).text[2]
             ELSE Head(content).text[2] \o sep \o BlockTexts(Tail(content), sep)

NewlineJoinedText(entry) == BlockTexts(entry.message.content, <<"\n">>)
ConcatenatedText(entry) == BlockTexts(entry.message.content, <<>>)

\* a step of the loop, and the entry it processes
Processes == Len(entries') = Len(entries) + 1
Processed == entries'[Len(entries')]
Active == current_interaction # <<>>

InteractionId == [k \in 1..9 |-> Str(<<"interaction-",
                     <<"1", "2", "3", "4", "5", "6", "7", "8", "9">>[k]>>)]

\* interaction k is the one human message k starts
StartedBy(interaction, human, k) ==
    /\ interaction.id = InteractionId[k]
    /\ interaction.timestamp = human.timestamp
    /\ interaction.user_prompt = Str(NewlineJoinedText(human))

\* C3: one Interaction per human message, in input order, the k-th with id
\* "interaction-k", the message's timestamp and the newline-join of its Text
\* blocks as user_prompt; the earlier ones are in the output list while the
\* last is in progress, and all of them are in the returned list.
C3_OneInteractionPerHumanMessage ==
    LET humans == SelectSeq(entries, _is_human_message)
        started == IF pc = "returned" THEN interactions
                   ELSE interactions \o current_interaction
    IN  /\ Len(started) = Len(humans)
        /\ \A k \in 1..Len(humans) : StartedBy(started[k], humans[k], k)
        /\ pc = "loop" => Len(current_interaction) = (IF humans = <<>> THEN 0 ELSE 1)
        /\ pc = "returned" => Len(interactions) = Len(humans)

C3_Witness ==
    /\ pc = "returned"
    /\ Len(interactions) = 2
    /\ Len(entries) = 3
    /\ interactions[2].user_prompt = Str(<<"a", "\n", "b">>)
    /\ interactions[2].id = Str(<<"interaction-", "2">>)

\* the value a ToolResult block carries for Action.tool_result, a string:
\* its content, as JSON text when the content is structured
ResultText(block) ==
    IF block.content[1] = "str" THEN block.content ELSE Str(Render(block.content))

\* C4: a tool_use action is created with an empty result; a User entry with
\* ToolResult blocks that is no cancellation and no auto-compact message,
\* processed while an interaction is active, gives each tool_use action whose
\* tool_id equals the tool_use_id of a ToolResult block that block's content
\* and is_error (the last such block, the first such action), and changes
\* nothing else: a block whose id equals no tool_id has no effect.
C4_ToolResultsMatchById ==
    [][ (Processes /\ Active) =>
        LET entry == Processed
            old == current_interaction[1].actions
            new == current_interaction'[1].actions
        IN  /\ entry.cls = "AssistantEntry" =>
                  \A j \in (Len(old) + 1)..Len(new) :
                      new[j].action_type = "tool_use" =>
                          new[j].tool_result = None /\ new[j].is_error = Bool(FALSE)
            /\ ( /\ entry.cls = "UserEntry"
                 /\ ~_is_human_message(entry)
                 /\ ~_is_cancellation_message(Str(NewlineJoinedText(entry)))
                 /\ ~_is_auto_compact_message(Str(NewlineJoinedText(entry))) ) =>
                  LET content == entry.message.content
                      carrying(id) == {k \in 1..Len(content) :
                                        /\ IsToolResultBlock(content[k])
                                        /\ content[k].tool_use_id = id}
                      first(j) == \A h \in 1..(j - 1) :
                                     ~(old[h].action_type = "tool_use"
                                       /\ old[h].tool_id = old[j].tool_id)
                  IN  /\ current_interaction' # <<>>
                      /\ Len(new) = Len(old)
                      /\ \A j \in 1..Len(old) :
                            IF /\ old[j].action_type = "tool_use"
                               /\ carrying(old[j].tool_id) # {}
                               /\ first(j)
                            THEN LET block == content[Max(carrying(old[j].tool_id))]
                                 IN  new[j] = [old[j] EXCEPT
                                                  !.tool_result = ResultText(block),
                                                  !.is_error = block.is_error]
                            ELSE new[j] = old[j]
                      /\ current_interaction'[1] =
                             [current_interaction[1] EXCEPT !.actions = new]
                      /\ UNCHANGED <<interactions, interaction_counter>>
      ]_vars

\* a result was attached by id, and a block with an unknown id did nothing
C4_Witness ==
    /\ pc = "loop"
    /\ Len(entries) = 3
    /\ entries[3].cls = "UserEntry"
    /\ \E k \in 1..Len(entries[3].message.content) :
          /\ IsToolResultBlock(entries[3].message.content[k])
          /\ entries[3].message.content[k].tool_use_id = Str(<<"t2">>)
    /\ current_interaction # <<>>
    /\ \E j \in 1..Len(current_interaction[1].actions) :
          /\ current_interaction[1].actions[j].action_type = "tool_use"
          /\ current_interaction[1].actions[j].tool_id = Str(<<"t1">>)
          /\ current_interaction[1].actions[j].tool_result
                 = Str(Render(List(<<RawText(<<"ok">>)>>)))
          /\ current_interaction[1].actions[j].is_error = Bool(FALSE)

\* the actions an assistant entry adds: one for each Thinking and ToolUse
\* block, and one text action when it has text
AddedByAssistant(entry) ==
    LET content == entry.message.content
        acts == {k \in 1..Len(content) :
                    content[k].cls \in {"ThinkingContent", "ToolUseContent"}}
        texts == {k \in 1..Len(content) : IsTextBlock(content[k])}
    IN  Cardinality(acts) + (IF texts = {} THEN 0 ELSE 1)

\* C5: a User entry whose text is exactly a cancellation message, processed
\* while an interaction is active, sets cancel_reason of the current
\* interaction to that message and changes nothing else, ToolResult blocks
\* in the entry included; the interaction stays current, and a later
\* assistant entry appends its actions to it.
C5_CancellationOnlySetsReason ==
    [][ (Processes /\ Active) =>
        LET entry == Processed
        IN  /\ (entry.cls = "UserEntry"
                /\ NewlineJoinedText(entry) \in CANCELLATION_MESSAGES) =>
                  /\ current_interaction' =
                        <<[current_interaction[1] EXCEPT
                              !.cancel_reason = Str(NewlineJoinedText(entry))]>>
                  /\ UNCHANGED <<interactions, interaction_counter>>
            /\ (entry.cls = "AssistantEntry"
                /\ current_interaction[1].cancel_reason # None) =>
                  /\ current_interaction' # <<>>
                  /\ current_interaction'[1].id = current_interaction[1].id
                  /\ current_interaction'[1].cancel_reason
                         = current_interaction[1].cancel_reason
                  /\ Len(current_interaction'[1].actions)
                         = Len(current_interaction[1].actions) + AddedByAssistant(entry)
                  /\ SubSeq(current_interaction'[1].actions, 1,
                            Len(current_interaction[1].actions))
                         = current_interaction[1].actions
      ]_vars

\* human, tool use, a cancellation carrying a result for that tool, assistant
C5_Witness ==
    /\ pc = "loop"
    /\ Len(entries) = 4
    /\ entries[3].cls = "UserEntry"
    /\ NewlineJoinedText(entries[3]) = CANCEL_TOOL
    /\ \E k \in 1..Len(entries[3].message.content) :
          IsToolResultBlock(entries[3].message.content[k])
    /\ entries[4].cls = "AssistantEntry"
    /\ current_interaction # <<>>
    /\ current_interaction[1].cancel_reason = Str(CANCEL_TOOL)
    /\ Len(current_interaction[1].actions) = 4
    /\ current_interaction[1].actions[2].action_type = "tool_use"
    /\ current_interaction[1].actions[2].tool_result = None
    /\ current_interaction[1].actions[4].action_type = "text"

\* C6: a User entry whose text, trimmed, starts with the auto-compact prefix,
\* processed while an interaction is active, appends exactly one auto_compact
\* action with the text as summary to the current interaction, which stays
\* current; no interaction is started or closed.
C6_AutoCompactAppendsAction ==
    [][ (Processes /\ Active) =>
        LET entry == Processed
        IN  (entry.cls = "UserEntry"
             /\ StartsWith(Strip(NewlineJoinedText(entry)), AUTO_COMPACT_PREFIX)) =>
               /\ current_interaction' # <<>>
               /\ current_interaction'[1] =
                     [current_interaction[1] EXCEPT !.actions = current_interaction'[1].actions]
               /\ Len(current_interaction'[1].actions)
                      = Len(current_interaction[1].actions) + 1
               /\ SubSeq(current_interaction'[1].actions, 1,
                         Len(current_interaction[1].actions))
                      = current_interaction[1].actions
               /\ LET added == current_interaction'[1].actions[
                                   Len(current_interaction'[1].actions)]
                  IN  /\ added.action_type = "auto_compact"
                      /\ added.summary = Str(NewlineJoinedText(entry))
               /\ UNCHANGED <<interactions, interaction_counter>>
      ]_vars

C6_Witness ==
    /\ pc = "loop"
    /\ Len(entries) = 2
    /\ interactions = <<>>
    /\ interaction_counter = 1
    /\ current_interaction # <<>>
    /\ Len(current_interaction[1].actions) = 1
    /\ current_interaction[1].actions[1].action_type = "auto_compact"
    /\ current_interaction[1].actions[1].summary
           = Str(<<" ">> \o AUTO_COMPACT_PREFIX \o <<"summary">>)

\* the number of interactions and the current one are as before
SameInteractions ==
    /\ Len(interactions') = Len(interactions)
    /\ interaction_counter' = interaction_counter
    /\ Len(current_interaction') = Len(current_interaction)
    /\ Active => current_interaction'[1].id = current_interaction[1].id

HasMarker(text) ==
    \/ Contains(text, COMMAND_NAME)
    \/ Contains(text, COMMAND_MESSAGE)
    \/ Contains(text, LOCAL_COMMAND_STDOUT)
    \/ Contains(text, LOCAL_COMMAND_STDERR)

\* C7 as claimed: a User entry whose text contains one of the four markers or
\* the caveat prefix starts no interaction and ends none.
C7_AsClaimed ==
    [][ (Processes /\ Processed.cls = "UserEntry"
         /\ (HasMarker(ConcatenatedText(Processed))
             \/ Contains(ConcatenatedText(Processed), CAVEAT_PREFIX)))
        => SameInteractions ]_vars

\* C7 amended: a User entry whose text contains one of the four markers, or
\* starts with the caveat prefix, starts no interaction and ends none.
C7_LocalCommandKeepsInteractions ==
    [][ (Processes /\ Processed.cls = "UserEntry"
         /\ (HasMarker(ConcatenatedText(Processed))
             \/ StartsWith(ConcatenatedText(Processed), CAVEAT_PREFIX)))
        => SameInteractions ]_vars

\* a local-command entry was processed with an interaction active, which
\* stayed the only one
C7_Witness ==
    /\ pc = "loop"
    /\ Len(entries) = 3
    /\ HasMarker(ConcatenatedText(entries[2]))
    /\ StartsWith(ConcatenatedText(entries[3]), CAVEAT_PREFIX)
    /\ interaction_counter = 1
    /\ interactions = <<>>
    /\ current_interaction # <<>>

Decodes(line) == line[1] = "text"
DecodesToObject(line) == line[1] = "text" /\ line[2][1] = "obj"

\* C1: every decoded JSON object d is parsed to an entry whose to_dict()
\* equals d, whatever its type.
C1_AsClaimed ==
    LET objects == SelectSeq(lines, DecodesToObject)
    IN  /\ Len(entries) = Len(objects)
        /\ \A k \in 1..Len(objects) : to_dict(entries[k]) = objects[k][2]

\* C9: no exception reaches the caller of parse_session_file, and the
\* entries are the parses, in file order, of the lines that are neither blank
\* nor undecodable.
C9_AsClaimed ==
    LET decoded == SelectSeq(lines, Decodes)
    IN  /\ pc # "raised"
        /\ exception = None
        /\ Len(entries) = Len(decoded)
        /\ \A k \in 1..Len(decoded) : to_dict(entries[k]) = decoded[k][2]

\* the timestamp value _parse_timestamp is given for a record
TimestampValue(d) ==
    IF Get(d, "type", None) = Str(<<"file-history-snapshot">>)
    THEN Get(Get(d, "snapshot", EmptyDict), "timestamp", None)
    ELSE Get(d, "timestamp", None)

\* a timestamp text that decodes: a date-time, with Z, an offset or neither
DecodableTimestamp(ts) ==
    /\ ts[1] = "str"
    /\ \E body \in DateBodies : ts[2] \in {<<body>>, <<body, "Z">>, <<body, UtcOffset>>}

\* a record that is sound but for its timestamp
SoundButTimestamp(d) ==
    /\ Get(d, "message", EmptyDict)[1] = "obj"
    /\ Get(d, "snapshot", EmptyDict)[1] = "obj"
    /\ ~DecodableTimestamp(TimestampValue(d))

\* C10: a record whose timestamp is missing or does not decode, whatever its
\* value, is parsed to an entry that carries the current time.
C10_AsClaimed ==
    LET objects == SelectSeq(lines, DecodesToObject)
    IN  \A k \in 1..Len(objects) :
           SoundButTimestamp(objects[k][2]) =>
               /\ k <= Len(entries)
               /\ entries[k].timestamp \in {Now(clock) : clock \in Clock}

(* ===================== claims: the conversations ======================= *)
RECURSIVE Flatten(_)
Flatten(ss) == IF ss = <<>> THEN <<>> ELSE Head(ss) \o Flatten(Tail(ss))

Count(s, e) == Cardinality({k \in 1..Len(s) : s[k] = e})

\* uuid u leads to uuid v by n or fewer parent links of the session
RECURSIVE Leads(_, _, _, _)
Leads(es, u, v, n) ==
    n > 0 /\ \E k \in 1..Len(es) :
                /\ es[k].uuid = u
                /\ Truthy(es[k].uuid)
                /\ \/ parent_uuid(es[k]) = v
                   \/ Leads(es, parent_uuid(es[k]), v, n - 1)

NoParentLinkCycle(es) ==
    \A k \in 1..Len(es) : ~Leads(es, es[k].uuid, es[k].uuid, Len(es))

\* C2: for a session with no parent-link cycle, the returned threads hold
\* every User and Assistant entry of the session once, and nothing else.
C2_AsClaimed ==
    (pc = "returned" /\ NoParentLinkCycle(entries)) =>
        LET all == Flatten(conversations)
            wanted == SelectSeq(entries, IsUserOrAssistant)
        IN  /\ \A k \in 1..Len(all) : IsUserOrAssistant(all[k])
            /\ \A k \in 1..Len(wanted) : Count(all, wanted[k]) = Count(wanted, wanted[k])

(* ======================== claims: the verifier ========================= *)
\* the decoded value of the line is parsed to an entry whose re-encoding
\* is another value
Differs(line) ==
    /\ Decodes(line)
    /\ \E clock \in Clock :
          LET entry == parse_entry(line[2], clock)
          IN  IsOk(entry) /\ to_dict(Val(entry)) # line[2]

\* the physical numbers, counted from 1, of the lines that differ
DifferingLines(ls) ==
    SelectSeq([k \in 1..Len(ls) |-> k], LAMBDA k : Differs(ls[k]))

RECURSIVE ConcatTexts(_)
ConcatTexts(bs) ==
    IF bs = <<>> THEN <<>>
    ELSE (IF Head(bs).cls = "TextContent" THEN Head(bs).text[2] ELSE <<>>)
         \o ConcatTexts(Tail(bs))

\* the type discriminator of the record of a block
RecordType(b) ==
    CASE b.cls = "TextContent" -> Str(<<"text">>)
      [] b.cls = "ThinkingContent" -> Str(<<"thinking">>)
      [] b.cls = "ToolUseContent" -> Str(<<"tool_use">>)
      [] b.cls = "ToolResultContent" -> Str(<<"tool_result">>)

\* C12: serialize_content returns a plain string exactly when the original
\* content was a plain string (the single Text block's text, else the
\* concatenation of the Text blocks' texts, empty if there is none) and a
\* sequence of block records otherwise; for every string s,
\* serialize_content(parse_content(s), s) = s.
C12_SerializeKeepsShape ==
    pc = "returned" =>
        /\ IsStr(ret) <=> IsStr(original_content)
        /\ IsStr(original_content) =>
              ret = IF Len(blocks) = 1 /\ blocks[1].cls = "TextContent"
                    THEN blocks[1].text
                    ELSE Str(ConcatTexts(blocks))
        /\ ~IsStr(original_content) =>
              /\ IsList(ret)
              /\ Len(ret[2]) = Len(blocks)
              /\ \A k \in 1..Len(blocks) :
                    IsDict(ret[2][k]) /\ ret[2][k][2].type = RecordType(blocks[k])
        /\ (IsStr(original_content) /\ blocks = parse_content(original_content)) =>
              ret = original_content

\* a one-character string went through parse_content and serialize_content
C12_Witness ==
    /\ pc = "returned"
    /\ original_content = Str(<<"a">>)
    /\ blocks = parse_content(original_content)
    /\ ret = Str(<<"a">>)

(* ======================== claims: the file names ======================= *)
\* the name without its extension, up to the first underscore
BeforeUnderscore(name) ==
    LET stem == SelectSeq(name, LAMBDA c : c # EXTENSION)
        k == CHOOSE j \in 1..(Len(stem) + 1) :
                /\ j = Len(stem) + 1 \/ stem[j] = "_"
                /\ \A i \in 1..(j - 1) : stem[i] # "_"
    IN  SubSeq(stem, 1, k - 1)

RECURSIVE DecimalValue(_)
DecimalValue(chars) ==
    IF chars = <<>> THEN 0
    ELSE DigitValue(chars[Len(chars)]) + 10 * DecimalValue(SubSeq(chars, 1, Len(chars) - 1))

\* C13: extract_numeric_id returns the integer value of the part of the
\* name, with ".jsonl" removed, before the first underscore exactly when
\* that part is not empty and consists only of digits, and returns no id
\* otherwise.
C13_AsClaimed ==
    pc # "call" =>
        LET part == BeforeUnderscore(file_name)
        IN  /\ pc = "returned"
            /\ IF part # <<>> /\ \A k \in 1..Len(part) : part[k] \in DecimalDigits
               THEN ret = Num(DecimalValue(part))
               ELSE ret = None

\* C14: every entry of every thread is a User or an Assistant entry, also
\* below a User or Assistant root.
C14_AsClaimed ==
    /\ \A k \in 1..Len(thread) : IsUserOrAssistant(thread[k])
    /\ \A k \in 1..Len(conversations) :
          \A j \in 1..Len(conversations[k]) : IsUserOrAssistant(conversations[k][j])

\* the children of an entry, in the order of the session
ChildrenOf(es, e) ==
    SelectSeq(es, LAMBDA c : Truthy(e.uuid) /\ parent_uuid(c) = e.uuid)

\* the entry, then the pre-order of each of its children in turn
RECURSIVE PreOrder(_, _, _)
RECURSIVE PreOrderEach(_, _, _)
PreOrder(es, e, depth) ==
    IF depth = 0 THEN <<e>>
    ELSE <<e>> \o PreOrderEach(es, ChildrenOf(es, e), depth - 1)
PreOrderEach(es, cs, depth) ==
    IF cs = <<>> THEN <<>>
    ELSE PreOrder(es, Head(cs), depth) \o PreOrderEach(es, Tail(cs), depth)

\* C15: each thread is the pre-order depth-first traversal of the tree under
\* its root: a parent before its descendants, the whole subtree of a child
\* before the next sibling, siblings in their order in the session.
C15_ThreadIsPreOrder ==
    \A k \in 1..Len(conversations) :
        conversations[k] = PreOrder(entries, conversations[k][1], MaxThread)

\* a root with two children, the first of which has a child that comes
\* last in the session, was returned as root, child, grandchild, sibling
C15_Witness ==
    /\ pc = "returned"
    /\ Len(entries) = 4
    /\ Len(conversations) = 1
    /\ conversations[1] = <<entries[1], entries[2], entries[4], entries[3]>>
    /\ entries[3].uuid # entries[2].uuid
    /\ parent_uuid(entries[4]) = entries[2].uuid

\* the entries whose parent reference is absent or is the uuid of no
\* entry of the session
RootsAsClaimed(es) ==
    SelectSeq(es, LAMBDA e :
        parent_uuid(e) = None \/ \A k \in 1..Len(es) : es[k].uuid # parent_uuid(e))

\* C16: get_conversations returns one thread per root, in the order of the
\* roots, and each thread begins with its root.
C16_AsClaimed ==
    pc = "returned" =>
        /\ Len(conversations) = Len(RootsAsClaimed(entries))
        /\ \A k \in 1..Len(conversations) :
              conversations[k][1] = RootsAsClaimed(entries)[k]

RECURSIVE Below(_, _, _)
Below(es, U, n) ==
    IF n = 0 THEN U
    ELSE Below(es,
               U \cup {es[k].uuid : k \in {j \in 1..Len(es) :
                          Truthy(es[j].uuid) /\ parent_uuid(es[j]) \in U}},
               n - 1)

\* the walk from the root comes to a uuid that lies on a cycle
CycleBelow(es, root) ==
    \E u \in Below(es, IF Truthy(root.uuid) THEN {root.uuid} ELSE {}, Len(es)) :
        Leads(es, u, u, Len(es))

RECURSIVE IsAncestor(_, _, _, _)
IsAncestor(es, i, j, n) ==
    n > 0 /\ \E k \in 1..Len(es) :
                /\ Truthy(es[k].uuid)
                /\ es[k].uuid = parent_uuid(es[j])
                /\ (k = i \/ IsAncestor(es, i, k, n - 1))

NoOwnAncestor(es) == \A i \in 1..Len(es) : ~IsAncestor(es, i, i, Len(es))

\* C18: on a session in which no entry is its own ancestor,
\* get_conversations returns, also when entries share a uuid or have none.
C18_TerminatesWithoutOwnAncestor == NoOwnAncestor(entries) => <>(pc = "returned")

\* a walk over a session with two entries of one uuid and one entry without
\* uuid has returned a thread that holds an entry twice
C18_Witness ==
    /\ pc = "returned"
    /\ NoOwnAncestor(entries)
    /\ \E i, j \in 1..Len(entries) : i # j /\ entries[i].uuid = entries[j].uuid
    /\ \E i \in 1..Len(entries) : ~Truthy(entries[i].uuid)
    /\ \E k \in 1..Len(conversations) :
          \E i, j \in 1..Len(conversations[k]) :
              i # j /\ conversations[k][i] = conversations[k][j]

(* =================== claims: the builder, continued ==================== *)
\* action j of the list is a tool_use action whose tool_id an earlier
\* tool_use action of the list has too
IsLaterDuplicate(actions, j) ==
    /\ actions[j].action_type = "tool_use"
    /\ \E i \in 1..(j - 1) :
          actions[i].action_type = "tool_use" /\ actions[i].tool_id = actions[j].tool_id

\* the entry carries tool results that the builder matches to actions
IsToolResultEntry(entry) ==
    /\ entry.cls = "UserEntry"
    /\ ~_is_human_message(entry)
    /\ ~_is_cancellation_message(Str(NewlineJoinedText(entry)))
    /\ ~_is_auto_compact_message(Str(NewlineJoinedText(entry)))

\* C19: when tool_use actions of one interaction share a tool_id, a tool
\* result with that id is written to the first of them in the action list,
\* and the later ones keep an empty tool_result for the rest of the build.
C19_DuplicateIdFirstGetsResults ==
    [][ /\ \A n \in 1..Len(interactions' \o current_interaction') :
              LET actions == (interactions' \o current_interaction')[n].actions
              IN  \A j \in 1..Len(actions) :
                      IsLaterDuplicate(actions, j) => actions[j].tool_result = None
        /\ (Processes /\ Active /\ IsToolResultEntry(Processed)) =>
              LET content == Processed.message.content
                  old == current_interaction[1].actions
                  new == current_interaction'[1].actions
              IN  \A j \in 1..Len(old) :
                      LET with == {k \in 1..Len(content) :
                                      /\ IsToolResultBlock(content[k])
                                      /\ content[k].tool_use_id = old[j].tool_id}
                      IN  ( /\ old[j].action_type = "tool_use"
                            /\ ~IsLaterDuplicate(old, j)
                            /\ \E i \in (j + 1)..Len(old) : IsLaterDuplicate(old, i)
                                                            /\ old[i].tool_id = old[j].tool_id
                            /\ with # {} ) =>
                              new[j].tool_result = ResultText(content[Max(with)])
      ]_vars

\* two tool_use actions of the current interaction have one tool_id: the
\* first has the result, the second has none
C19_Witness ==
    /\ Active
    /\ \E i, j \in 1..Len(current_interaction[1].actions) :
          LET actions == current_interaction[1].actions
          IN  /\ i < j
              /\ actions[i].action_type = "tool_use"
              /\ actions[j].action_type = "tool_use"
              /\ actions[i].tool_id = actions[j].tool_id
              /\ actions[i].tool_result # None
              /\ actions[j].tool_result = None

\* the positions of the blocks of a message that satisfy Test, in order
PositionsOf(content, Test(_)) ==
    SelectSeq([k \in 1..Len(content) |-> k], LAMBDA k : Test(content[k]))

ProducesToolAction(block) == block.cls \in {"ThinkingContent", "ToolUseContent"}

ProducesText(block) ==
    /\ IsTextBlock(block)
    /\ ~StartsWith(block.text[2], THINKING_FALLBACK_1)
    /\ ~StartsWith(block.text[2], THINKING_FALLBACK_2)

\* C20: the actions an assistant entry adds to the interaction are ordered
\* as the content blocks that produced them are positioned in the message,
\* the text action among the thinking and tool_use actions too.
C20_AsClaimed ==
    [][ (Processes /\ Active /\ Processed.cls = "AssistantEntry") =>
        LET content == Processed.message.content
            old == current_interaction[1].actions
            new == current_interaction'[1].actions
            added == SubSeq(new, Len(old) + 1, Len(new))
            tools == PositionsOf(content, ProducesToolAction)
            texts == PositionsOf(content, ProducesText)
            Nth(i) == Cardinality({m \in 1..i : added[m].action_type # "text"})
            Pos(i) == IF added[i].action_type = "text" THEN texts[1] ELSE tools[Nth(i)]
        IN  /\ SubSeq(new, 1, Len(old)) = old
            /\ Nth(Len(added)) = Len(tools)
            /\ (texts = <<>>) = (\A i \in 1..Len(added) : added[i].action_type # "text")
            /\ \A i, j \in 1..Len(added) : i < j => Pos(i) < Pos(j)
      ]_vars

\* the texts of the text actions of a list, in order, joined by newlines
RECURSIVE TextActionsJoined(_)
TextActionsJoined(actions) ==
    LET texts == SelectSeq(actions, LAMBDA a : a.action_type = "text")
    IN  IF texts = <<>> THEN <<>>
        ELSE IF Len(texts) = 1 THEN texts[1].text[2]
        ELSE texts[1].text[2] \o <<"\n">> \o TextActionsJoined(Tail(texts))

HasTextAction(actions) == \E k \in 1..Len(actions) : actions[k].action_type = "text"

\* C21: at every point of the build, an interaction's final_response is the
\* newline-join, in order, of the texts of the text actions of its list, and
\* is null exactly when the list has no text action; a later assistant entry
\* extends it and never overwrites it.
C21_FinalResponseAccumulates ==
    [][ /\ \A n \in 1..Len(interactions' \o current_interaction') :
              LET it == (interactions' \o current_interaction')[n]
              IN  /\ (it.final_response = None) = ~HasTextAction(it.actions)
                  /\ HasTextAction(it.actions) =>
                        it.final_response = Str(TextActionsJoined(it.actions))
        /\ ( /\ Active
             /\ current_interaction' # <<>>
             /\ current_interaction'[1].id = current_interaction[1].id
             /\ current_interaction[1].final_response # None ) =>
              /\ current_interaction'[1].final_response # None
              /\ StartsWith(current_interaction'[1].final_response[2],
                            current_interaction[1].final_response[2])
      ]_vars

\* two assistant entries have each added a text to the current interaction
C21_Witness ==
    /\ Active
    /\ LET texts == SelectSeq(current_interaction[1].actions,
                              LAMBDA a : a.action_type = "text")
       IN  /\ Len(texts) = 2
           /\ texts[1].text # texts[2].text
           /\ current_interaction[1].final_response =
                 Str(texts[1].text[2] \o <<"\n">> \o texts[2].text[2])

\* the tool_use_ids of the ToolResult blocks of a user entry
ResultIds(entry) ==
    {entry.message.content[k].tool_use_id :
        k \in {i \in 1..Len(entry.message.content) :
                  IsToolResultBlock(entry.message.content[i])}}

\* C22: an interaction that a later human message has saved to the output
\* list is never changed by a later entry; in particular a ToolResult whose
\* tool_use_id is that of a tool_use action of a saved interaction leaves
\* that action without a result.
C22_FlushedNeverChanges ==
    [][ /\ Len(interactions') >= Len(interactions)
        /\ \A n \in 1..Len(interactions) : interactions'[n] = interactions[n]
        /\ (Processes /\ Processed.cls = "UserEntry" /\ ~_is_human_message(Processed)) =>
              \A n \in 1..Len(interactions) :
                  \A j \in 1..Len(interactions[n].actions) :
                      ( /\ interactions[n].actions[j].action_type = "tool_use"
                        /\ interactions[n].actions[j].tool_result = None
                        /\ interactions[n].actions[j].tool_id \in ResultIds(Processed) ) =>
                          /\ Len(interactions') = Len(interactions)
                          /\ interactions'[n].actions[j].tool_result = None
      ]_vars

\* a result for the tool_use of the saved first interaction has arrived
\* during the second interaction, and the action still has no result
C22_Witness ==
    /\ pc = "loop"
    /\ Len(interactions) = 1
    /\ Active
    /\ Len(entries) >= 1
    /\ LET last == entries[Len(entries)]
       IN  /\ last.cls = "UserEntry"
           /\ ~_is_human_message(last)
           /\ \E j \in 1..Len(interactions[1].actions) :
                  /\ interactions[1].actions[j].action_type = "tool_use"
                  /\ interactions[1].actions[j].tool_result = None
                  /\ interactions[1].actions[j].tool_id \in ResultIds(last)

IsHuman(entry) == entry.cls = "UserEntry" /\ _is_human_message(entry)

\* the entries from the first human message on; none when there is none
FromFirstHuman(es) ==
    LET humans == {k \in 1..Len(es) : IsHuman(es[k])}
    IN  IF humans = {} THEN <<>> ELSE SubSeq(es, Min(humans), Len(es))

\* the locals of build_interactions after its loop has run over a list
RECURSIVE AfterLoop(_)
AfterLoop(es) ==
    IF es = <<>> THEN BuildStart
    ELSE ForBody(AfterLoop(SubSeq(es, 1, Len(es) - 1)), es[Len(es)])

\* C23: entries met while no interaction is active are dropped: non-human
\* User entries and Assistant entries before the first human message create
\* no interaction and no action, so the build of a list is the build of its
\* suffix from the first human message on, and is empty without one.
C23_DroppedBeforeFirstHuman ==
    /\ (FromFirstHuman(entries) = <<>>) =>
          /\ interactions = <<>>
          /\ current_interaction = <<>>
          /\ interaction_counter = 0
    /\ (pc = "loop") => Builder = AfterLoop(FromFirstHuman(entries))
    /\ (pc = "returned") => interactions = BuildReturn(AfterLoop(FromFirstHuman(entries)))

\* a tool result and an assistant response came before the first human
\* message; the build returned the one interaction the human message began
C23_Witness ==
    /\ pc = "returned"
    /\ Len(entries) = 4
    /\ entries[1].cls = "UserEntry" /\ ~IsHuman(entries[1])
    /\ ResultIds(entries[1]) # {}
    /\ entries[2].cls = "AssistantEntry"
    /\ IsHuman(entries[3])
    /\ entries[4].cls = "AssistantEntry"
    /\ Len(interactions) = 1
    /\ interactions[1].id = InteractionId[1]
    /\ interactions[1].actions # <<>>

\* C24: classification and transition agree on the text of a User entry:
\* when a User entry without ToolResult blocks is no human message because
\* its text is a cancellation message or an auto-compact continuation, and
\* an interaction is active, the builder sets cancel_reason respectively
\* appends an auto_compact action, however the text is divided into Text
\* blocks.
C24_AsClaimed ==
    [][ ( /\ Processes
          /\ Active
          /\ Processed.cls = "UserEntry"
          /\ ResultIds(Processed) = {}
          /\ ~_is_human_message(Processed) ) =>
            LET text == Str(ConcatenatedText(Processed))
                old == current_interaction[1].actions
                new == current_interaction'[1].actions
            IN  /\ _is_cancellation_message(text) =>
                      current_interaction'[1].cancel_reason = Str(Strip(text[2]))
                /\ (~_is_cancellation_message(text) /\ _is_auto_compact_message(text)) =>
                      /\ Len(new) = Len(old) + 1
                      /\ new[Len(new)].action_type = "auto_compact"
      ]_vars

=============================================================================
